---- MODULE Spec2Model ----
(***************************************************************************)
(* OpenQube Gaussian basis-set engine (src/src/gaussianset.cpp): the       *)
(* builders that fill a GaussianSet, the normalization pass                *)
(* initCalculation, the two asynchronous cube evaluations and their        *)
(* completion slot, with the target cube's read/write lock; clone(); and   *)
(* the loader facade BasisSetLoader::LoadBasisSet                          *)
(* (src/src/basissetloader.cpp), a path being a sequence of characters.    *)
(*                                                                         *)
(* Doubles are modelled symbolically.  A primitive is the pair of integers *)
(* the parser passed; a normalized coefficient is <<form, c, a>> where     *)
(* form names the normalization formula applied; a cube sample is          *)
(* <<tag, pos, state, terms>> where terms lists, shell by shell in the     *)
(* order of the kernel loop, what the kernel read.  An out-of-range or     *)
(* uninitialized read is undefined behaviour: the step either crashes the  *)
(* process (alive becomes FALSE) or yields one of the Garbage values.      *)
(***************************************************************************)
EXTENDS Integers, Sequences, FiniteSets, TLC

\* ---------------------------------------------------------------- bounds
MaxAtoms == 1
MaxShells == 2
MaxGTO == 1
MaxPoints == 2
MaxDispatch == 2
MaxReaders == 1
MaxMutations == 1

\* The orbital enumeration of gaussianset.h.
Orbital == {"S", "SP", "P", "D", "D5", "F", "F7", "G", "G9", "H", "H11", "I", "I13"}

\* Values an indeterminate (uninitialized or out-of-range) read may produce.
Garbage == {0, -1}

\* m_gaussianShells when no work array is allocated.
NULL == [alloc |-> FALSE, v |-> <<>>]

VARIABLES
  alive,            \* FALSE once undefined behaviour has crashed the process
  numAtoms,         \* m_molecule.numAtoms()
  m_numMOs, m_numAtoms, m_init,
  m_symmetry, m_atomIndices, m_moIndices, m_gtoIndices, m_cIndices,
  m_gtoA, m_gtoC, m_gtoCN,
  m_moMatrix, m_density,
  m_gaussianShells, \* the work array, NULL when none is allocated
  pending,          \* descriptors of the running map not yet processed
  running,          \* the function m_future maps while it is unfinished, or "none"
  connections,      \* connections of m_watcher.finished() to calculationComplete
  pc,               \* where the calling thread is: "idle", "lockMO", "lockDensity"
  pcState,          \* the state argument of the call blocked at the lock
  cubeData, cubeType, cubeLock, readers,
  finishedCount,    \* finished() signals emitted by the basis
  dispatched,       \* calls that returned true
  lastKind,         \* what the last call that returned true computes
  writes,           \* setValue calls per sample index in the last dispatch
  runs,             \* completed computeMO runs: <<basis, state, cube contents>>
  mutations,        \* builder calls made since the first normalization pass
  normalizedOnce,   \* a normalization pass has run
  shellsAtMOs,      \* the number of shells the basis had at the last addMOs call
  gtoShell,         \* per primitive, the last shell's index when addGTO added it
  m_clone,          \* the basis object clone() returned, if it was called
  loaded,           \* the last LoadBasisSet call: its path, parser outcome, result
  lastOp            \* the evaluation call the last step made or completed, if any

basisVars == <<numAtoms, m_numMOs, m_numAtoms, m_init, m_symmetry, m_atomIndices,
               m_moIndices, m_gtoIndices, m_cIndices, m_gtoA, m_gtoC, m_gtoCN,
               m_moMatrix, m_density>>
cubeVars == <<cubeData, cubeType, cubeLock, readers>>
evalVars == <<m_gaussianShells, pending, running, connections, pc, pcState,
              finishedCount, dispatched, lastKind, writes, runs>>
histVars == <<mutations, normalizedOnce, shellsAtMOs, gtoShell>>
vars == <<alive, basisVars, cubeVars, evalVars, histVars, lastOp, m_clone, loaded>>

\* ------------------------------------------------------------- helpers
\* Zero-based read of a std::vector / QVector held as a sequence.
At(v, i) == v[i + 1]
InRange(v, i) == i >= 0 /\ i < Len(v)

\* An Eigen::MatrixXd: column-major storage, entry (i, j) at data[i + j*rows].
Matrix(r, c, d) == [rows |-> r, cols |-> c, data |-> d]
EmptyMatrix == Matrix(0, 0, <<>>)
MatrixSize(m) == m.rows * m.cols
CoeffIndex(m, i, j) == i + j * m.rows
CoeffInRange(m, i, j) == CoeffIndex(m, i, j) >= 0 /\ CoeffIndex(m, i, j) < Len(m.data)
CoeffRef(m, i, j) == At(m.data, CoeffIndex(m, i, j))

\* No computation is outstanding on the basis and its caller is not blocked:
\* the builders and the evaluation calls are issued one at a time (a call
\* that overlaps a computation in flight is outside the interface).
Idle == alive /\ pc = "idle" /\ m_gaussianShells = NULL

Op(name, arg, ret) == [op |-> name, arg |-> arg, ret |-> ret]
NoOp == Op("none", 0, "none")

\* A builder call: the basis is idle, and once it has been normalized at
\* most MaxMutations further builder calls are made.
BuilderCall ==
  /\ Idle
  /\ lastOp' = NoOp
  /\ UNCHANGED normalizedOnce
  /\ IF normalizedOnce THEN mutations < MaxMutations /\ mutations' = mutations + 1
     ELSE UNCHANGED mutations

\* ------------------------------------------------------------ builders
\* GaussianSet::addAtom
addAtom ==
  /\ BuilderCall
  /\ numAtoms < MaxAtoms
  /\ m_init' = FALSE
  /\ numAtoms' = numAtoms + 1
  /\ UNCHANGED <<alive, m_numMOs, m_numAtoms, m_symmetry, m_atomIndices, m_moIndices,
                 m_gtoIndices, m_cIndices, m_gtoA, m_gtoC, m_gtoCN, m_moMatrix,
                 m_density, cubeVars, evalVars, shellsAtMOs, gtoShell>>

\* A component table with F counted as the 10 Cartesian functions it has.
ComponentsAddedF10(type) ==
  CASE type = "S" -> 1 [] type = "P" -> 3 [] type = "SP" -> 4 [] type = "D" -> 6
    [] type = "D5" -> 5 [] type = "F" -> 10 [] type = "F7" -> 7 [] OTHER -> 0

\* The switch of GaussianSet::addBasis: what one shell adds to m_numMOs.
ComponentsAdded(type) ==
  CASE type = "S" -> 1 [] type = "P" -> 3 [] type = "SP" -> 4 [] type = "D" -> 6
    [] type = "D5" -> 5 [] type = "F" -> 8 [] type = "F7" -> 7 [] OTHER -> 0

\* GaussianSet::addBasis
addBasis(atom, type) ==
  /\ BuilderCall
  /\ Len(m_symmetry) < MaxShells
  /\ m_numMOs' = m_numMOs + ComponentsAdded(type)
  /\ m_init' = FALSE
  /\ m_symmetry' = Append(m_symmetry, type)
  /\ m_atomIndices' = Append(m_atomIndices, atom)
  /\ UNCHANGED <<alive, numAtoms, m_numAtoms, m_moIndices, m_gtoIndices, m_cIndices,
                 m_gtoA, m_gtoC, m_gtoCN, m_moMatrix, m_density, cubeVars, evalVars, shellsAtMOs, gtoShell>>

\* addGTO's bookkeeping of the first primitive of a shell.
GtoIndicesAfterAdd ==
  IF Len(m_gtoIndices) < Len(m_atomIndices)
  THEN Append(m_gtoIndices, Len(m_gtoA))
  ELSE m_gtoIndices

\* GaussianSet::addGTO leaves m_init as it is.
InitAfterAddGTO == m_init

\* GaussianSet::addGTO
addGTO(c, a) ==
  /\ BuilderCall
  /\ Len(m_gtoA) < MaxGTO
  /\ m_gtoIndices' = GtoIndicesAfterAdd
  /\ m_gtoA' = Append(m_gtoA, a)
  /\ m_gtoC' = Append(m_gtoC, c)
  /\ m_init' = InitAfterAddGTO
  /\ UNCHANGED <<alive, numAtoms, m_numMOs, m_numAtoms, m_symmetry, m_atomIndices,
                 m_moIndices, m_cIndices, m_gtoCN, m_moMatrix, m_density,
                 cubeVars, evalVars, shellsAtMOs>>
  /\ gtoShell' = Append(gtoShell, Len(m_symmetry) - 1)

\* The flat coefficient array a parser passes to addMOs: len values, the
\* k-th (from 1) being k, so that every entry of the matrix names its source.
MOInput(len) == [k \in 1..len |-> k]

\* Input lengths for a basis of n components: all n columns, and when the
\* set of every MO is not asked for (some programs do not output all MOs)
\* also none and one column.
MOInputLens(n, all) == IF all THEN {n * n} ELSE {0, n, n * n}

\* The side of the matrix a caller installs as density matrix: that of the MO
\* matrix, numMOs (1 on a basis without components).
DensitySide == IF m_numMOs = 0 THEN 1 ELSE m_numMOs

\* Eigen's resize(r, c): storage of r*c entries is kept with its contents,
\* any other size is reallocated and left uninitialized (all entries g).
Resize(m, r, c, g) ==
  IF r * c = MatrixSize(m) THEN Matrix(r, c, m.data)
  ELSE Matrix(r, c, [k \in 1..(r * c) |-> g])

\* The matrix addMOs leaves: the first columns*n entries of the column-major
\* storage are the input, the rest is what resize left there.
MOMatrixAfterAdd(MOs, g) ==
  LET n == m_numMOs
      columns == Len(MOs) \div n
      resized == Resize(m_moMatrix, n, n, g)
  IN Matrix(n, n, [k \in 1..(n * n) |->
                     IF k <= columns * n THEN MOs[k] ELSE resized.data[k]])

\* GaussianSet::addMOs.  With m_numMOs = 0 the division is undefined: the
\* process traps, or the quotient is arbitrary and the matrix becomes 0 x 0.
addMOs(MOs) ==
  /\ BuilderCall
  /\ m_init' = FALSE
  /\ shellsAtMOs' = Len(m_symmetry)
  /\ UNCHANGED gtoShell
  /\ IF m_numMOs = 0
     THEN \/ /\ alive' = FALSE
             /\ UNCHANGED m_moMatrix
          \/ /\ m_moMatrix' = EmptyMatrix
             /\ UNCHANGED alive
     ELSE /\ \E g \in Garbage : m_moMatrix' = MOMatrixAfterAdd(MOs, g)
          /\ UNCHANGED alive
  /\ UNCHANGED <<numAtoms, m_numMOs, m_numAtoms, m_symmetry, m_atomIndices,
                 m_moIndices, m_gtoIndices, m_cIndices, m_gtoA, m_gtoC, m_gtoCN,
                 m_density, cubeVars, evalVars>>

\* GaussianSet::setDensityMatrix leaves m_init as it is.
InitAfterSetDensity == m_init

\* The matrices a caller installs: square of side s, entry k (from 1, in
\* storage order) being k.
DensityInput(s) == Matrix(s, s, [k \in 1..(s * s) |-> k])

\* GaussianSet::setDensityMatrix
setDensityMatrix(m) ==
  /\ BuilderCall
  /\ m_density' = m
  /\ m_init' = InitAfterSetDensity
  /\ UNCHANGED <<alive, numAtoms, m_numMOs, m_numAtoms, m_symmetry, m_atomIndices,
                 m_moIndices, m_gtoIndices, m_cIndices, m_gtoA, m_gtoC, m_gtoCN,
                 m_moMatrix, cubeVars, evalVars, shellsAtMOs, gtoShell>>

\* ----------------------------------------------------- normalization pass
\* The types whose case of initCalculation pushes normalized coefficients.
Kernel == {"S", "P", "D", "D5"}

\* Normalized coefficients pushed for one primitive (c, a) of a shell, in
\* push order; the first component names the formula and its constant.
NormEntries(type, c, a) ==
  CASE type = "S" -> << <<"S_0.71270547", c, a>> >>
    [] type = "P" -> [k \in 1..3 |-> <<"P_1.425410941", c, a>>]
    [] type = "D" -> [k \in 1..6 |-> IF k <= 3 THEN <<"D_1.645922781", c, a>>
                                               ELSE <<"D_2.850821881", c, a>>]
    [] type = "D5" -> << <<"D5_2048_9pi3", c, a>>, <<"D5_2048_pi3", c, a>>,
                         <<"D5_2048_pi3", c, a>>, <<"D5_128_pi3", c, a>>,
                         <<"D5_2048_pi3", c, a>> >>
    [] OTHER -> <<>>

\* The case labels F .. I13 of initCalculation fall through one another, each
\* assigning skip: entering at any of them leaves the last assignment.
SkipLabels == <<"F", "F7", "G", "G9", "H", "H11", "I", "I13">>
SkipValues == <<10, 7, 15, 9, 21, 11, 28, 13>>
Skip(type) == SkipValues[Len(SkipValues)]
Unhandled == {SkipLabels[k] : k \in 1..Len(SkipLabels)}

\* How far indexMO advances over a shell of the given type.
IndexMOAdvance(type) ==
  CASE type = "S" -> 1 [] type = "P" -> 3 [] type = "D" -> 6 [] type = "D5" -> 5
    [] type \in Unhandled -> Skip(type)
    [] OTHER -> 0

RECURSIVE Concat(_)
Concat(ss) == IF ss = <<>> THEN <<>> ELSE Head(ss) \o Concat(Tail(ss))

\* The loop of initCalculation from shell i (zero-based) on.  acc carries
\* indexMO and the arrays being filled; gto is m_gtoIndices with the final
\* entry appended.  A shell whose m_gtoIndices[i] or [i+1] lies beyond the
\* array reads out of range: under ub = "crash" the pass crashes, under
\* ub = "zero" the read yields 0.
RECURSIVE InitShells(_, _, _, _)
InitShells(i, acc, gto, ub) ==
  IF i >= Len(m_symmetry) \/ acc.crashed THEN acc
  ELSE
    LET type == At(m_symmetry, i)
        oob == type \in Kernel /\ ~InRange(gto, i + 1)
        lo == IF InRange(gto, i) THEN At(gto, i) ELSE 0
        hi == IF InRange(gto, i + 1) THEN At(gto, i + 1) ELSE 0
        pushed == Concat([k \in 1..(IF hi > lo THEN hi - lo ELSE 0) |->
                            NormEntries(type, At(m_gtoC, lo + k - 1),
                                              At(m_gtoA, lo + k - 1))])
        handled == type \in Kernel \/ type \in Unhandled
    IN IF oob /\ ub = "crash" THEN [acc EXCEPT !.crashed = TRUE]
       ELSE InitShells(i + 1,
              [indexMO |-> acc.indexMO + IndexMOAdvance(type),
               moIndices |-> IF handled
                             THEN [acc.moIndices EXCEPT ![i + 1] = acc.indexMO]
                             ELSE acc.moIndices,
               cIndices |-> IF handled THEN Append(acc.cIndices, Len(acc.gtoCN))
                            ELSE acc.cIndices,
               gtoCN |-> IF type \in Kernel THEN acc.gtoCN \o pushed ELSE acc.gtoCN,
               crashed |-> FALSE],
              gto, ub)

\* std::vector::resize(n): the old entries kept, new ones zero.
VectorResize(v, n) == [k \in 1..n |-> IF k <= Len(v) THEN v[k] ELSE 0]

\* GaussianSet::initCalculation on a basis whose m_init is FALSE.
InitCalculation(ub) ==
  LET gto == Append(m_gtoIndices, Len(m_gtoA))
      r == InitShells(0, [indexMO |-> 0,
                          moIndices |-> VectorResize(m_moIndices, Len(m_symmetry)),
                          cIndices |-> m_cIndices,
                          gtoCN |-> <<>>,
                          crashed |-> FALSE], gto, ub)
  IN [gtoIndices |-> gto, moIndices |-> r.moIndices, cIndices |-> r.cIndices,
      gtoCN |-> r.gtoCN, crashed |-> r.crashed]

\* The outcomes of an out-of-range read during the pass.
InitOutcomes == {"crash", "zero"}

\* ------------------------------------------------------------- kernels
\* Components per primitive that the kernel of a type consumes.
KernelComponents(type) ==
  CASE type = "S" -> 1 [] type = "P" -> 3 [] type = "D" -> 6 [] type = "D5" -> 5
    [] OTHER -> 0

\* The number of primitives the kernel loop of shell i visits.
PrimCount(i) ==
  LET lo == At(m_gtoIndices, i)
      hi == At(m_gtoIndices, i + 1)
  IN IF hi > lo THEN hi - lo ELSE 0

\* Every index the primitive loop of shell i uses is inside its array.
PrimsOK(i) ==
  /\ InRange(m_cIndices, i)
  /\ InRange(m_gtoIndices, i + 1)
  /\ PrimCount(i) > 0 =>
       /\ At(m_gtoIndices, i + 1) <= Len(m_gtoA)
       /\ At(m_cIndices, i) + PrimCount(i) * KernelComponents(At(m_symmetry, i))
            <= Len(m_gtoCN)

\* What the primitive loop of shell i reads: per primitive the normalized
\* coefficients taken by cIndex++ and the exponent.
PrimsRead(i) ==
  LET k == KernelComponents(At(m_symmetry, i))
      lo == At(m_gtoIndices, i)
      c0 == At(m_cIndices, i)
  IN [p \in 1..PrimCount(i) |->
        << [q \in 1..k |-> At(m_gtoCN, c0 + (p - 1) * k + (q - 1))],
           At(m_gtoA, lo + p - 1) >>]

\* The precomputed delta/dr2 entry of the shell's atom exists.
AtomOK(i) == At(m_atomIndices, i) < m_numAtoms

\* isSmall on a symbolic coefficient.
isSmall(val) == val = 0

\* The MO coefficients of shell i are inside the storage of m_moMatrix.
CoefsOK(i, indexMO) ==
  \A q \in 0..(KernelComponents(At(m_symmetry, i)) - 1) :
    CoeffInRange(m_moMatrix, At(m_moIndices, i) + q, indexMO)

CoefsRead(i, indexMO) ==
  [q \in 1..KernelComponents(At(m_symmetry, i)) |->
     CoeffRef(m_moMatrix, At(m_moIndices, i) + (q - 1), indexMO)]

KernelShells == {i \in 0..(Len(m_symmetry) - 1) : At(m_symmetry, i) \in Kernel}

\* pointS returns before the primitive loop when its coefficient is small.
SkipsPrimitives(i, indexMO) ==
  At(m_symmetry, i) = "S" /\ isSmall(CoeffRef(m_moMatrix, At(m_moIndices, i), indexMO))

\* processPoint for MO state reads only inside its arrays.
PointOK(state) ==
  \A i \in KernelShells :
    /\ AtomOK(i)
    /\ CoefsOK(i, state - 1)
    /\ SkipsPrimitives(i, state - 1) \/ PrimsOK(i)

\* The value processPoint computes at sample pos: the contribution of every
\* shell in loop order (nothing for the types of the default case).
PointValue(pos, state) ==
  <<"MO", pos, state,
    [s \in 1..Len(m_symmetry) |->
       LET i == s - 1
       IN IF i \notin KernelShells THEN <<m_symmetry[s], 0, <<>>, <<>>>>
          ELSE <<m_symmetry[s], At(m_atomIndices, i), CoefsRead(i, state - 1),
                 IF SkipsPrimitives(i, state - 1) THEN <<>> ELSE PrimsRead(i)>>]>>

\* Rows of the per-point vector that the kernel of shell i writes.
RowsWritten(i) ==
  {At(m_moIndices, i) + q : q \in 0..(KernelComponents(At(m_symmetry, i)) - 1)}

\* processDensity stays inside its arrays and reads no row of the per-point
\* vector that no kernel has written.
DensityOK ==
  /\ \A i \in KernelShells :
       /\ AtomOK(i)
       /\ PrimsOK(i)
       /\ \A r \in RowsWritten(i) : r < m_density.rows
  /\ \A r \in 0..(m_density.rows - 1) : \E i \in KernelShells : r \in RowsWritten(i)
  /\ m_density.cols >= m_density.rows

\* The value processDensity computes at sample pos.
DensityValue(pos) ==
  <<"rho", pos, m_density.rows,
    [s \in 1..Len(m_symmetry) |->
       LET i == s - 1
       IN IF i \notin KernelShells THEN <<m_symmetry[s], 0, <<>>, <<>>>>
          ELSE <<m_symmetry[s], At(m_atomIndices, i),
                 [q \in 1..KernelComponents(m_symmetry[s]) |-> At(m_moIndices, i) + q - 1],
                 PrimsRead(i)>>]>>

\* A sample holding an indeterminate value.
GarbageValue(g) == <<"garbage", g, 0, <<>>>>
\* A sample of a cube nothing has been written to.
InitialValue == <<"init", 0, 0, <<>>>>

\* ----------------------------------------------------------- evaluator
\* A work array whose descriptors all keep the pos of a fresh descriptor.
WorkArrayPosUnset(n, state) ==
  [alloc |-> TRUE, v |-> [k \in 1..n |-> [pos |-> 0, state |-> state]]]

\* The work array of a dispatch over n samples: descriptor k (from 1) has
\* pos = k - 1, as the loops of calculateCubeMO / calculateCubeDensity set it.
WorkArray(n, state) == [alloc |-> TRUE, v |-> [k \in 1..n |-> [pos |-> k - 1, state |-> state]]]

\* A range check that lets the state one past the last MO through.
StateRejectedOffByOne(state) == state < 1 \/ state > m_moMatrix.rows + 1

\* The guard of calculateCubeMO: state < 1 || state > m_moMatrix.rows().
StateRejected(state) == state < 1 \/ state > m_moMatrix.rows

\* No check of the density matrix at all.
DensityMissingUnchecked == FALSE

\* The guard of calculateCubeDensity: m_density.size() == 0.
DensityMissing == MatrixSize(m_density) = 0

\* GaussianSet::numMOs
numMOs == m_moMatrix.rows

\* The cube's lock had lockForWrite() not been called.
LockNotTaken == cubeLock

\* The value of the cube's lock after lockForWrite() has returned.
LockForWrite == "write"

\* The tag had both evaluations passed Cube::MO.
SetCubeTypeAlwaysMO(kind) == "MO"

\* The cube's tag after setCubeType(kind).
SetCubeType(kind) == kind

\* The basis after initCalculation() has returned without crashing.
Normalized(ub) ==
  IF m_init
  THEN /\ UNCHANGED <<m_numAtoms, m_moIndices, m_gtoIndices, m_cIndices, m_gtoCN, m_init>>
       /\ UNCHANGED normalizedOnce
  ELSE LET r == InitCalculation(ub)
       IN /\ normalizedOnce' = TRUE
          /\ m_numAtoms' = numAtoms
          /\ m_moIndices' = r.moIndices
          /\ m_gtoIndices' = r.gtoIndices
          /\ m_cIndices' = r.cIndices
          /\ m_gtoCN' = r.gtoCN
          /\ m_init' = TRUE

InitCrashes(ub) == ~m_init /\ InitCalculation(ub).crashed

\* The cube's lock can be taken for write at once.
LockFree == cubeLock = "free" /\ readers = 0

\* From lockForWrite() returning to return true: the tag, the connection of
\* the watcher, the start of the map.
Dispatch(kind, fn, n) ==
  /\ cubeLock' = LockForWrite
  /\ cubeType' = SetCubeType(kind)
  /\ connections' = connections + 1
  /\ running' = fn
  /\ pending' = 1..n
  /\ writes' = [k \in 1..n |-> 0]
  /\ dispatched' = dispatched + 1
  /\ lastKind' = kind
  /\ pc' = "idle"
  /\ UNCHANGED <<cubeData, readers, finishedCount, runs>>

\* The call stays in lockForWrite() until the readers have left.
Blocked(at) ==
  /\ pc' = at
  /\ UNCHANGED <<cubeVars, connections, running, pending, writes, dispatched,
                 lastKind, finishedCount, runs>>

\* The states a caller asks for: the two just outside the range and the last
\* one inside it.
StatesAsked == {0, m_moMatrix.rows, m_moMatrix.rows + 1}

\* GaussianSet::calculateCubeMO
calculateCubeMO(state) ==
  /\ Idle
  /\ IF StateRejected(state)
     THEN /\ lastOp' = Op("calculateCubeMO", state, "false")
          /\ UNCHANGED <<alive, basisVars, cubeVars, evalVars, histVars>>
     ELSE /\ dispatched < MaxDispatch
          /\ \E ub \in InitOutcomes :
               IF InitCrashes(ub)
               THEN /\ alive' = FALSE
                    /\ lastOp' = Op("calculateCubeMO", state, "crash")
                    /\ UNCHANGED <<basisVars, cubeVars, evalVars, histVars>>
               ELSE /\ Normalized(ub)
                    /\ m_gaussianShells' = WorkArray(Len(cubeData), state)
                    /\ pcState' = state
                    /\ IF LockFree
                       THEN /\ Dispatch("MO", "processPoint", Len(cubeData))
                            /\ lastOp' = Op("calculateCubeMO", state, "true")
                       ELSE /\ Blocked("lockMO")
                            /\ lastOp' = Op("calculateCubeMO", state, "blocked")
                    /\ UNCHANGED <<alive, numAtoms, m_numMOs, m_symmetry, m_atomIndices,
                                   m_gtoA, m_gtoC, m_moMatrix, m_density, mutations,
                                   shellsAtMOs, gtoShell>>

\* GaussianSet::calculateCubeDensity
calculateCubeDensity ==
  /\ Idle
  /\ IF DensityMissing
     THEN /\ lastOp' = Op("calculateCubeDensity", 0, "false")
          /\ UNCHANGED <<alive, basisVars, cubeVars, evalVars, histVars>>
     ELSE /\ dispatched < MaxDispatch
          /\ \E ub \in InitOutcomes :
               IF InitCrashes(ub)
               THEN /\ alive' = FALSE
                    /\ lastOp' = Op("calculateCubeDensity", 0, "crash")
                    /\ UNCHANGED <<basisVars, cubeVars, evalVars, histVars>>
               ELSE /\ Normalized(ub)
                    /\ m_gaussianShells' = WorkArray(Len(cubeData), 0)
                    /\ pcState' = 0
                    /\ IF LockFree
                       THEN /\ Dispatch("ElectronDensity", "processDensity", Len(cubeData))
                            /\ lastOp' = Op("calculateCubeDensity", 0, "true")
                       ELSE /\ Blocked("lockDensity")
                            /\ lastOp' = Op("calculateCubeDensity", 0, "blocked")
                    /\ UNCHANGED <<alive, numAtoms, m_numMOs, m_symmetry, m_atomIndices,
                                   m_gtoA, m_gtoC, m_moMatrix, m_density, mutations,
                                   shellsAtMOs, gtoShell>>

\* lockForWrite() returns in a call that was blocked, and the call runs on to
\* its return true.
lockAcquired ==
  /\ alive
  /\ pc # "idle"
  /\ LockFree
  /\ IF pc = "lockMO"
     THEN /\ Dispatch("MO", "processPoint", Len(cubeData))
          /\ lastOp' = Op("calculateCubeMO", pcState, "true")
     ELSE /\ Dispatch("ElectronDensity", "processDensity", Len(cubeData))
          /\ lastOp' = Op("calculateCubeDensity", 0, "true")
  /\ UNCHANGED <<alive, basisVars, m_gaussianShells, pcState, histVars>>

\* The sample index a worker writes for a descriptor.
TargetIndex(shell) == shell.pos

\* One worker of the map: processPoint or processDensity on descriptor k,
\* ending in tCube->setValue(pos, value).
processShell(k) ==
  /\ alive
  /\ running # "none"
  /\ k \in pending
  /\ LET shell == m_gaussianShells.v[k]
         ok == IF running = "processPoint" THEN PointOK(shell.state) ELSE DensityOK
         value == IF running = "processPoint" THEN PointValue(shell.pos, shell.state)
                  ELSE DensityValue(shell.pos)
         setValue(v) ==
           /\ cubeData' = [cubeData EXCEPT ![TargetIndex(shell) + 1] = v]
           /\ writes' = [writes EXCEPT ![TargetIndex(shell) + 1] = @ + 1]
           /\ pending' = pending \ {k}
           /\ UNCHANGED alive
     IN IF ok THEN setValue(value)
        ELSE \/ \E g \in Garbage : setValue(GarbageValue(g))
             \/ /\ alive' = FALSE
                /\ UNCHANGED <<cubeData, writes, pending>>
  /\ lastOp' = NoOp
  /\ UNCHANGED <<histVars, basisVars, m_gaussianShells, running, connections, pc, pcState,
                 cubeType, cubeLock, readers, finishedCount, dispatched, lastKind, runs>>

\* What a finished run leaves for comparison with a later run.
RunRecord == <<basisVars, pcState, running, cubeData>>

\* GaussianSet::calculationComplete, the slot the watcher's finished() runs
\* once the map is over.  The lock released is that of descriptor 0's cube; on
\* an empty work array that read is out of range: the slot crashes, or it goes
\* on with an indeterminate pointer and the cube's lock stays as it is.
calculationComplete ==
  /\ alive
  /\ pc = "idle"
  /\ running # "none"
  /\ pending = {}
  /\ connections > 0
  /\ lastOp' = NoOp
  /\ UNCHANGED histVars
  /\ \/ /\ Len(m_gaussianShells.v) > 0
        /\ cubeLock' = "free"
        /\ UNCHANGED alive
     \/ /\ Len(m_gaussianShells.v) = 0
        /\ cubeLock' = cubeLock
        /\ alive' \in BOOLEAN
  /\ IF alive'
     THEN /\ connections' = 0
          /\ m_gaussianShells' = NULL
          /\ running' = "none"
          /\ finishedCount' = finishedCount + 1
          /\ runs' = runs \cup {RunRecord}
     ELSE UNCHANGED <<connections, m_gaussianShells, running, finishedCount, runs>>
  /\ UNCHANGED <<basisVars, pending, pc, pcState, cubeData, cubeType, readers,
                 dispatched, lastKind, writes>>

\* ------------------------------------------------------ readers of the cube
\* Another thread takes the cube's lock for read (QReadWriteLock: refused
\* while a writer holds the lock or waits for it).
readerLock ==
  /\ alive
  /\ cubeLock = "free"
  /\ pc = "idle"
  /\ readers < MaxReaders
  /\ readers' = readers + 1
  /\ lastOp' = NoOp
  /\ UNCHANGED histVars
  /\ UNCHANGED <<alive, basisVars, evalVars, cubeData, cubeType, cubeLock>>

readerUnlock ==
  /\ alive
  /\ readers > 0
  /\ readers' = readers - 1
  /\ lastOp' = NoOp
  /\ UNCHANGED histVars
  /\ UNCHANGED <<alive, basisVars, evalVars, cubeData, cubeType, cubeLock>>

\* ---------------------------------------------------------------- clone
\* The members of a basis object.  m_molecule is held by its number of atoms.
BasisState ==
  [numAtoms |-> numAtoms, m_numMOs |-> m_numMOs, m_numAtoms |-> m_numAtoms,
   m_init |-> m_init, m_symmetry |-> m_symmetry, m_atomIndices |-> m_atomIndices,
   m_moIndices |-> m_moIndices, m_gtoIndices |-> m_gtoIndices,
   m_cIndices |-> m_cIndices, m_gtoA |-> m_gtoA, m_gtoC |-> m_gtoC,
   m_gtoCN |-> m_gtoCN, m_moMatrix |-> m_moMatrix, m_density |-> m_density]

\* The object clone() builds: a default-constructed GaussianSet, whose
\* m_molecule holds no atom, with the thirteen members clone() assigns.
CloneResult == [BasisState EXCEPT !.numAtoms = 0]

\* No clone has been made.
NoClone == [made |-> FALSE, basis |-> <<>>]

\* GaussianSet::clone.  The members are vectors and matrices copied by value:
\* the result shares no storage with the original.
clone ==
  /\ Idle
  /\ ~m_clone.made
  /\ m_clone' = [made |-> TRUE, basis |-> CloneResult]
  /\ lastOp' = NoOp
  /\ UNCHANGED <<alive, basisVars, cubeVars, evalVars, histVars, loaded>>

\* --------------------------------------------------------------- loader
\* A path is a sequence of characters.  Qt::CaseInsensitive compares the
\* case-folded characters.
ToLower(ch) ==
  CASE ch = "A" -> "a" [] ch = "C" -> "c" [] ch = "F" -> "f" [] ch = "H" -> "h"
    [] ch = "K" -> "k" [] ch = "U" -> "u" [] ch = "X" -> "x" [] ch = "G" -> "g"
    [] ch = "O" -> "o" [] ch = "T" -> "t" [] OTHER -> ch

\* The index of the last ch in s, 0 when there is none.
LastIndexOf(s, ch) ==
  IF \E k \in 1..Len(s) : s[k] = ch
  THEN CHOOSE k \in 1..Len(s) : s[k] = ch /\ \A q \in (k + 1)..Len(s) : s[q] # ch
  ELSE 0

\* The index of the first ch in s, 0 when there is none.
IndexOf(s, ch) ==
  IF \E k \in 1..Len(s) : s[k] = ch
  THEN CHOOSE k \in 1..Len(s) : s[k] = ch /\ \A q \in 1..(k - 1) : s[q] # ch
  ELSE 0

\* QFileInfo::fileName: the path without its directory.
fileName(path) == SubSeq(path, LastIndexOf(path, "/") + 1, Len(path))

\* QFileInfo::completeSuffix: what follows the first dot of the file name.
completeSuffix(path) ==
  LET name == fileName(path)
      dot == IndexOf(name, ".")
  IN IF dot = 0 THEN <<>> ELSE SubSeq(name, dot + 1, Len(name))

\* QString::contains(sub, Qt::CaseInsensitive).
contains(str, sub) ==
  \E off \in 0..(Len(str) - Len(sub)) :
    \A k \in 1..Len(sub) : ToLower(str[off + k]) = ToLower(sub[k])

\* The substrings LoadBasisSet tests for, by branch.
FchkKeys == {<<"f", "c", "h", "k">>, <<"f", "c", "h">>, <<"f", "c", "k">>}
GukoutKeys == {<<"g", "u", "k", "o", "u", "t">>}
AuxKeys == {<<"a", "u", "x">>}
MoldenKeys == {<<"m", "o", "l", "d", "e", "n">>, <<"m", "o", "l", "d">>, <<"m", "o", "l", "f">>}

ContainsAny(str, keys) == \E key \in keys : contains(str, key)

\* What LoadBasisSet returns: the class of the object and the parser that
\* was run on it, or the null pointer.
Loaded(kind, parser) == [kind |-> kind, parser |-> parser]
NullBasis == Loaded("null", "none")

\* The branches of LoadBasisSet with aux tested ahead of gukout.
LoadResultAuxFirst(path) ==
  LET cs == completeSuffix(path)
  IN IF ContainsAny(cs, FchkKeys) THEN Loaded("GaussianSet", "GaussianFchk")
     ELSE IF ContainsAny(cs, AuxKeys) THEN Loaded("SlaterSet", "MopacAux")
     ELSE IF ContainsAny(cs, GukoutKeys) THEN Loaded("GaussianSet", "GamessukOut")
     ELSE IF ContainsAny(cs, MoldenKeys) THEN Loaded("GaussianSet", "MoldenFile")
     ELSE NullBasis

\* The branches of BasisSetLoader::LoadBasisSet.  The parser's outcome is not
\* looked at: the object is returned as the parser left it.
LoadResult(path) ==
  LET cs == completeSuffix(path)
  IN IF ContainsAny(cs, FchkKeys) THEN Loaded("GaussianSet", "GaussianFchk")
     ELSE IF ContainsAny(cs, GukoutKeys) THEN Loaded("GaussianSet", "GamessukOut")
     ELSE IF ContainsAny(cs, AuxKeys) THEN Loaded("SlaterSet", "MopacAux")
     ELSE IF ContainsAny(cs, MoldenKeys) THEN Loaded("GaussianSet", "MoldenFile")
     ELSE NullBasis

\* No LoadBasisSet call has been made.
NotLoaded == [called |-> FALSE, path |-> <<>>, parsed |-> TRUE, result |-> NullBasis]

\* BasisSetLoader::LoadBasisSet(path) on a file the selected parser reads
\* successfully (parsed) or fails on.
LoadBasisSet(path, parsed) ==
  /\ alive
  /\ loaded' = [called |-> TRUE, path |-> path, parsed |-> parsed,
                result |-> LoadResult(path)]
  /\ lastOp' = NoOp
  /\ UNCHANGED <<alive, basisVars, cubeVars, evalVars, histVars, m_clone>>

\* The paths LoadBasisSet is called with: an optional directory (its name
\* holding a dot and a key), a base name, and up to two extensions.
Dirs == {<<>>, <<"d", ".", "a", "u", "x", "/">>}
Bases == {<<"f", "o", "o">>, <<"f", "c", "h", "k">>, <<>>}
Extensions ==
  {<<>>, <<".", "f", "c", "h", "k">>, <<".", "F", "C", "H", "K">>, <<".", "f", "c", "h">>, <<".", "f", "c", "k">>,
   <<".", "g", "u", "k", "o", "u", "t">>, <<".", "G", "U", "K", "O", "U", "T">>, <<".", "a", "u", "x">>, <<".", "A", "u", "x">>,
   <<".", "m", "o", "l", "d", "e", "n">>, <<".", "m", "o", "l", "d">>, <<".", "m", "o", "l", "f">>, <<".", "x", "y", "z">>,
   <<".", "f", "c">>, <<".", "l", "o", "g">>}
LastExtensions == {<<>>, <<".", "a", "u", "x">>, <<".", "f", "c", "h">>, <<".", "x", "y", "z">>}
Paths ==
  {d \o b \o e1 \o e2 : d \in Dirs, b \in Bases, e1 \in Extensions, e2 \in LastExtensions}

\* ------------------------------------------------------- specification
Init ==
  /\ alive = TRUE
  /\ numAtoms = 0
  /\ m_numMOs = 0 /\ m_numAtoms = 0 /\ m_init = FALSE
  /\ m_symmetry = <<>> /\ m_atomIndices = <<>> /\ m_moIndices = <<>>
  /\ m_gtoIndices = <<>> /\ m_cIndices = <<>>
  /\ m_gtoA = <<>> /\ m_gtoC = <<>> /\ m_gtoCN = <<>>
  /\ m_moMatrix = EmptyMatrix /\ m_density = EmptyMatrix
  /\ m_gaussianShells = NULL
  /\ pending = {} /\ running = "none" /\ connections = 0
  /\ pc = "idle" /\ pcState = 0
  /\ \E n \in {0, MaxPoints} : cubeData = [k \in 1..n |-> InitialValue]
  /\ cubeType = "None" /\ cubeLock = "free" /\ readers = 0
  /\ finishedCount = 0 /\ dispatched = 0 /\ lastKind = "None"
  /\ writes = <<>>
  /\ runs = {}
  /\ mutations = 0 /\ normalizedOnce = FALSE /\ shellsAtMOs = 0 /\ gtoShell = <<>>
  /\ lastOp = NoOp
  /\ m_clone = NoClone
  /\ loaded = NotLoaded

\* The shell types the evaluation runs are built from: a type with a kernel
\* and a type the pass only skips over.
EvalTypes == {"S", "F"}

\* The shell types the builders are driven with: every type addBasis and
\* initCalculation name in a case of their own, and the first and the last of
\* the further fall-through labels.
ShellTypes == {"S", "SP", "P", "D", "D5", "F", "F7", "G", "I13"}

Builders(types, all) ==
  \/ addAtom
  \/ \E atom \in 0..(MaxAtoms - 1), type \in types : addBasis(atom, type)
  \/ addGTO(Len(m_gtoA) + 1, Len(m_gtoA) + 1)
  \/ \E len \in MOInputLens(m_numMOs, all) : addMOs(MOInput(len))
  \/ setDensityMatrix(DensityInput(DensitySide))

Next ==
  /\ \/ Builders(EvalTypes, TRUE)
     \/ \E state \in StatesAsked : calculateCubeMO(state)
     \/ calculateCubeDensity
     \/ lockAcquired
     \/ \E k \in pending : processShell(k)
     \/ calculationComplete
     \/ readerLock
     \/ readerUnlock
  /\ UNCHANGED <<m_clone, loaded>>

Spec == Init /\ [][Next]_vars

\* ------------------------------------------------------------ outputAll
\* The number of matrix columns outputAll prints for a shell of a type.
ColumnsPrinted(type) ==
  CASE type = "S" -> 1 [] type = "P" -> 3 [] type = "D" -> 6 [] type = "D5" -> 5
    [] type = "F" -> 10 [] type = "F7" -> 7 [] OTHER -> 0

\* Every element outputAll prints exists, for index arrays gto and mo.
OutputReadsOK(gto, mo) ==
  /\ InRange(gto, Len(m_symmetry))
  /\ \A i \in 0..(Len(m_symmetry) - 1) :
       \A q \in 0..(ColumnsPrinted(At(m_symmetry, i)) - 1) :
         /\ m_moMatrix.rows > 0
         /\ At(mo, i) + q < m_moMatrix.cols

\* GaussianSet::outputAll: the normalization pass, then a print of the arrays
\* (a print of an element that does not exist may crash the process).
outputAll ==
  /\ Idle
  /\ lastOp' = NoOp
  /\ \E ub \in InitOutcomes :
       IF InitCrashes(ub)
       THEN /\ alive' = FALSE
            /\ UNCHANGED <<basisVars, normalizedOnce>>
       ELSE /\ Normalized(ub)
            /\ IF OutputReadsOK(m_gtoIndices', m_moIndices') THEN alive' = TRUE
               ELSE alive' \in BOOLEAN
            /\ UNCHANGED <<numAtoms, m_numMOs, m_symmetry, m_atomIndices,
                           m_gtoA, m_gtoC, m_moMatrix, m_density>>
  /\ UNCHANGED <<cubeVars, evalVars, mutations, shellsAtMOs, gtoShell>>

\* The basis driven through its builders with every shell type, normalized by
\* outputAll, with no cube involved.
InitBuild == Init /\ cubeData = <<>>

NextBuild ==
  /\ \/ Builders(ShellTypes, FALSE)
     \/ outputAll
  /\ UNCHANGED <<m_clone, loaded>>

SpecBuild == InitBuild /\ [][NextBuild]_vars

\* The basis built, normalized by outputAll, and cloned at any point.
NextClone ==
  \/ Builders(EvalTypes, TRUE) /\ UNCHANGED <<m_clone, loaded>>
  \/ outputAll /\ UNCHANGED <<m_clone, loaded>>
  \/ clone

SpecClone == InitBuild /\ [][NextClone]_vars

\* The loader called on one path after another.
NextLoad == \E path \in Paths, parsed \in BOOLEAN : LoadBasisSet(path, parsed)

SpecLoad == InitBuild /\ [][NextLoad]_vars

\* ================================================================ claims
\* A computation is in flight: calculateCubeMO / calculateCubeDensity has
\* returned true and calculationComplete has not run yet.
InFlight == running # "none"

\* The last step was an evaluation call that returned (true or false).
Returned(op) == lastOp.op = op /\ lastOp.ret \in {"true", "false"}

\* C1: each of the five builders addAtom, addBasis, addGTO, addMOs and
\* setDensityMatrix, called on a basis whose normalized flag is set, leaves
\* the flag cleared.
C1_BuildersClearNormalized ==
  [][(m_init /\ Builders(EvalTypes, TRUE)) => ~m_init']_vars

\* C2: calculateCubeMO with a state outside [1, numMOs] returns false and
\* leaves the cube's lock, tag and samples, the work array, the map and the
\* finished signal as they were.
C2_OutOfRangeRejected ==
  [][(lastOp'.op = "calculateCubeMO" /\ (lastOp'.arg < 1 \/ lastOp'.arg > numMOs))
       => /\ lastOp'.ret = "false"
          /\ UNCHANGED <<cubeLock, cubeType, cubeData, readers, m_gaussianShells,
                         pending, running, connections, finishedCount, dispatched>>]_vars

\* C2 witness: a call with state numMOs + 1 on a basis that has MOs has just
\* been rejected.
C2_Witness ==
  /\ Returned("calculateCubeMO")
  /\ numMOs >= 1
  /\ lastOp.arg = numMOs + 1
  /\ lastOp.ret = "false"
  /\ cubeLock = "free"

\* C3: calculateCubeDensity on a basis whose density matrix is the one the
\* constructor left (setDensityMatrix never called) returns false and leaves
\* the cube's lock, tag and samples, the map and the finished signal as they
\* were.
C3_NoDensityRejected ==
  [][(lastOp'.op = "calculateCubeDensity" /\ m_density = EmptyMatrix)
       => /\ lastOp'.ret = "false"
          /\ UNCHANGED <<cubeLock, cubeType, cubeData, readers, m_gaussianShells,
                         pending, running, connections, finishedCount, dispatched>>]_vars

\* C3 witness: a basis with shells and MOs but no density matrix has just had
\* calculateCubeDensity rejected.
C3_Witness ==
  /\ Returned("calculateCubeDensity")
  /\ lastOp.ret = "false"
  /\ m_density = EmptyMatrix
  /\ Len(m_symmetry) > 0
  /\ numMOs > 0

\* C4: an evaluation call on a basis without shells never returns true.
C4_EmptyBasisRejected ==
  [][(lastOp'.op \in {"calculateCubeMO", "calculateCubeDensity"} /\ Len(m_symmetry) = 0)
       => lastOp'.ret # "true"]_vars

\* C5: once the finished signal of the latest dispatch has been delivered,
\* every point has been processed and the cube's write lock is released; the
\* signal is delivered at most once per dispatch.
C5_FinishedAfterUnlock ==
  /\ finishedCount <= dispatched
  /\ (dispatched > 0 /\ finishedCount = dispatched)
       => (pending = {} /\ ~InFlight /\ cubeLock # "write")

\* C6: while a computation is in flight the cube's lock is held for write and
\* no reader holds it; samples and tag are only written under the write lock,
\* no reader acquires the lock in flight, and the lock is released only when
\* no descriptor is left to process.
C6_WriteLockHeld ==
  /\ [](InFlight => (cubeLock = "write" /\ readers = 0))
  /\ [][/\ (cubeData' # cubeData) => (cubeLock = "write" /\ cubeLock' = "write")
        /\ (cubeType' # cubeType) => cubeLock' = "write"
        /\ (readers' > readers) => (~InFlight /\ ~InFlight')
        /\ (cubeLock = "write" /\ cubeLock' # "write") => (InFlight /\ pending = {})]_vars

\* C6 witness: a map over two samples with one sample written and one to
\* go, the lock held for write.
C6_Witness ==
  /\ InFlight
  /\ Len(cubeData) >= 2
  /\ Cardinality(pending) = 1
  /\ cubeLock = "write"

\* C7: the work array of a dispatch over N samples holds N descriptors with
\* pos 0 .. N-1 in order, no sample is written twice, and a sample has been
\* written exactly once as soon as its descriptor has been processed: all of
\* them once the map is over.
C7_OneWritePerIndex ==
  /\ m_gaussianShells.alloc =>
       /\ Len(m_gaussianShells.v) = Len(cubeData)
       /\ \A k \in 1..Len(m_gaussianShells.v) : m_gaussianShells.v[k].pos = k - 1
  /\ dispatched > 0 =>
       /\ Len(writes) = Len(cubeData)
       /\ \A i \in 1..Len(writes) : writes[i] = IF InFlight /\ i \in pending THEN 0 ELSE 1

\* C7 witness: a map over at least two samples is over, each written once.
C7_Witness ==
  /\ dispatched > 0
  /\ InFlight
  /\ pending = {}
  /\ Len(cubeData) >= 2
  /\ \A i \in 1..Len(writes) : writes[i] = 1

\* C8: once an evaluation call has returned true, the cube's tag is the one
\* of that evaluation (MO or ElectronDensity), before completion and after.
C8_TagAfterDispatch == lastKind # "None" => cubeType = lastKind

\* C8 witness: calculateCubeDensity has returned true on a cube last tagged
\* MO and no point has been processed yet.
C8_Witness ==
  /\ lastKind = "ElectronDensity"
  /\ cubeType = "ElectronDensity"
  /\ dispatched = 2
  /\ InFlight
  /\ Cardinality(pending) = Len(cubeData)
  /\ Len(cubeData) > 0

\* C9: two completed runs of calculateCubeMO on the same basis, the same cube
\* geometry and the same state leave the same cube contents.
C9_RunsAgree ==
  \A r1 \in runs, r2 \in runs :
    (r1[3] = "processPoint" /\ r1[1] = r2[1] /\ r1[2] = r2[2] /\ r1[3] = r2[3])
      => r1[4] = r2[4]

\* The component table of the claims: S 1, P 3, SP 4, D 6, D5 5, F 8, F7 7,
\* every other type 0.
componentsPerShell(type) ==
  CASE type = "S" -> 1 [] type = "P" -> 3 [] type = "SP" -> 4 [] type = "D" -> 6
    [] type = "D5" -> 5 [] type = "F" -> 8 [] type = "F7" -> 7 [] OTHER -> 0

RECURSIVE SumComponents(_)
SumComponents(types) ==
  IF types = <<>> THEN 0
  ELSE componentsPerShell(Head(types)) + SumComponents(Tail(types))

\* C10 as stated: the numMOs the basis reports is the sum of the component
\* counts of its shells.
C10_ReportedIsSum == numMOs = SumComponents(m_symmetry)

\* C10 amended: the component counter is the sum of the component counts of
\* the shells, and the numMOs the basis reports is that sum as it was at the
\* last addMOs call (over no shells before any addMOs).
C10_CounterIsSum ==
  /\ m_numMOs = SumComponents(m_symmetry)
  /\ numMOs = SumComponents(SubSeq(m_symmetry, 1, shellsAtMOs))

\* C10 witness: an F shell and an I13 shell, addMOs called after both: eight
\* MOs are reported.
C10_Witness ==
  /\ m_symmetry = <<"F", "I13">>
  /\ shellsAtMOs = 2
  /\ numMOs = 8
  /\ m_numMOs = 8

\* The MO matrix the claims describe after addMOs(input) on a basis of n
\* components: column-major input in the first len(input) / n columns, zero
\* in every other column.
MOMatrixClaimed(input, n) ==
  IF n = 0 THEN EmptyMatrix
  ELSE Matrix(n, n, [k \in 1..(n * n) |->
                       IF k <= (Len(input) \div n) * n THEN input[k] ELSE 0])

\* C11: every addMOs(input) call that returns leaves the n x n MO matrix with
\* entry (i, j) = input[i + j*n] in the columns j < len(input) / n and zero
\* in every further column.
C11_ColumnMajorZeroFilled ==
  [][\A len \in MOInputLens(m_numMOs, FALSE) :
       (addMOs(MOInput(len)) /\ alive') =>
         m_moMatrix' = MOMatrixClaimed(MOInput(len), m_numMOs)]_vars

\* C12: the object clone() returns holds the same atoms, shells, primitives,
\* MO matrix and density matrix as the original at the call, and no later
\* operation on the original changes it.
C12_CloneIsDeepCopy ==
  [][/\ (~m_clone.made /\ m_clone'.made) => m_clone'.basis = BasisState
     /\ m_clone.made => m_clone' = m_clone]_vars

\* The suffix classes of the loader in priority order: the substrings of a
\* class, the basis it instantiates and the parser it runs.
SuffixClasses ==
  <<[keys |-> {<<"f", "c", "h", "k">>, <<"f", "c", "h">>, <<"f", "c", "k">>},
     basis |-> "GaussianSet", parser |-> "GaussianFchk"],
    [keys |-> {<<"g", "u", "k", "o", "u", "t">>},
     basis |-> "GaussianSet", parser |-> "GamessukOut"],
    [keys |-> {<<"a", "u", "x">>},
     basis |-> "SlaterSet", parser |-> "MopacAux"],
    [keys |-> {<<"m", "o", "l", "d", "e", "n">>, <<"m", "o", "l", "d">>, <<"m", "o", "l", "f">>},
     basis |-> "GaussianSet", parser |-> "MoldenFile"]>>

\* The classes a path falls in: those with a substring that occurs, in any
\* case, in what follows the first dot of the file name.
ClassesOf(path) ==
  LET name == SubSeq(path, LastIndexOf(path, "/") + 1, Len(path))
      tail(k) == [q \in 1..(Len(name) - k) |-> ToLower(name[k + q])]
      occurs(key, str) ==
        \E off \in 0..(Len(str) - Len(key)) : SubSeq(str, off + 1, off + Len(key)) = key
  IN {c \in 1..Len(SuffixClasses) :
        \E k \in 1..Len(name) :
          /\ name[k] = "."
          /\ \A q \in 1..(k - 1) : name[q] # "."
          /\ \E key \in SuffixClasses[c].keys : occurs(key, tail(k))}

C14_NullOnParserFailure ==
  (loaded.called /\ ~loaded.parsed) => loaded.result.kind = "null"

\* A normalization pass runs in this step.
PassRuns == ~m_init /\ m_init'

\* Every primitive was added after the shell it belongs to.
PrimitivesOwned == \A p \in 1..Len(gtoShell) : gtoShell[p] >= 0

\* The primitives (zero-based) of shell s (zero-based): those addGTO added
\* while s was the last shell.
PrimitivesOf(s) == {p \in 0..(Len(gtoShell) - 1) : gtoShell[p + 1] = s}

\* Normalized coefficients per primitive by shell type: 1 for S, 3 for P, 6
\* for D, 5 for D5, none for the other types.
normPerPrimitive(type) ==
  CASE type = "S" -> 1 [] type = "P" -> 3 [] type = "D" -> 6 [] type = "D5" -> 5
    [] OTHER -> 0

\* The normalized coefficients of the shells before shell s (zero-based).
RECURSIVE NormBefore(_)
NormBefore(s) ==
  IF s = 0 THEN 0
  ELSE NormBefore(s - 1)
         + Cardinality(PrimitivesOf(s - 1)) * normPerPrimitive(At(m_symmetry, s - 1))

\* moOffset of every shell is the component count of the shells before it.
MoOffsetsAligned ==
  \A s \in 0..(Len(m_symmetry) - 1) :
    /\ InRange(m_moIndices, s)
    /\ At(m_moIndices, s) = SumComponents(SubSeq(m_symmetry, 1, s))

\* C15: after a normalization pass moOffset[s] is the sum of the component
\* counts (S 1, P 3, SP 4, D 6, D5 5, F 8, F7 7, others 0) of the shells
\* before s.
C15_MoOffsetIsComponentSum == [][PassRuns => MoOffsetsAligned']_vars

\* normOffset of every shell is the count of normalized coefficients of the
\* shells before it, and normCoeff holds those of all shells.
NormOffsetsAligned ==
  /\ \A s \in 0..(Len(m_symmetry) - 1) :
       /\ InRange(m_cIndices, s)
       /\ At(m_cIndices, s) = NormBefore(s)
  /\ Len(m_gtoCN) = NormBefore(Len(m_symmetry))

\* C16: after every normalization pass, first or repeated, normOffset[s] is
\* the index of shell s's first normalized coefficient, the shells lying in
\* normCoeff one after another with numPrimitives x components entries each.
C16_NormOffsetIsFirstCoefficient ==
  [][(PassRuns /\ PrimitivesOwned) => NormOffsetsAligned']_vars

\* The primitive range of every shell holds the shell's own primitives, and
\* the entry after the last shell's is the number of primitives.
PrimitiveRangesOwn ==
  /\ InRange(m_gtoIndices, Len(m_symmetry))
  /\ At(m_gtoIndices, Len(m_symmetry)) = Len(m_gtoA)
  /\ \A s \in 0..(Len(m_symmetry) - 1) :
       {p \in 0..(Len(m_gtoA) - 1) :
          At(m_gtoIndices, s) <= p /\ p < At(m_gtoIndices, s + 1)} = PrimitivesOf(s)

\* C17: after a normalization pass the range [firstPrimitive[s],
\* firstPrimitive[s+1]) holds exactly the primitives added between the
\* addBasis of shell s and the next addBasis, firstPrimitive[numShells] being
\* the number of primitives.
C17_PrimitiveRangeIsOwn ==
  [][(PassRuns /\ PrimitivesOwned) => PrimitiveRangesOwn']_vars

\* C18: in a dispatched evaluation every index the kernels use is in range:
\* the shell's atom below the number of atoms, its MO rows below the rows of
\* the MO matrix (of the density matrix in density mode), its normalized
\* coefficients and exponents inside their arrays.
C18_KernelIndicesInRange ==
  (InFlight /\ Len(cubeData) > 0) =>
    \A i \in KernelShells :
      /\ At(m_atomIndices, i) < m_numAtoms
      /\ \A q \in 0..(KernelComponents(At(m_symmetry, i)) - 1) :
           At(m_moIndices, i) + q <
             (IF running = "processPoint" THEN m_moMatrix.rows ELSE m_density.rows)
      /\ \/ running = "processPoint" /\ m_moMatrix.rows > 0 /\ pcState >= 1
              /\ SkipsPrimitives(i, pcState - 1)
         \/ PrimsOK(i)

====
